---- MODULE Spec2Model ----
(***************************************************************************)
(* Model of backend/server.js: the caption lookup, the caption cache, the  *)
(* analogy cache and the POST /api/generate-analogy pipeline, together     *)
(* with the POST /api/explain provider switch.                             *)
(*                                                                         *)
(* Text is a sequence of one-character strings so that toLowerCase() and   *)
(* String.includes() are computed, not assumed.  A JSON value of a request *)
(* body is a one-field record: [str |-> chars], [num |-> n],                *)
(* [undefined |-> TRUE] or [null |-> TRUE].                                *)
(***************************************************************************)
EXTENDS Integers, Sequences, FiniteSets, TLC

(***************************************************************************)
(* JSON values and JavaScript truthiness                                   *)
(***************************************************************************)
JStr(s) == [str |-> s]

JNum(n) == [num |-> n]

JUndefined == [undefined |-> TRUE]

JNull == [null |-> TRUE]

IsStr(v) == "str" \in DOMAIN v

IsNum(v) == "num" \in DOMAIN v

\* !v is false exactly for a non-empty string and a non-zero number
Truthy(v) ==
    IF IsStr(v) THEN v.str # <<>>
    ELSE IF IsNum(v) THEN v.num # 0
    ELSE FALSE

(***************************************************************************)
(* Strings                                                                 *)
(***************************************************************************)
UpperChars == <<"A","B","C","D","E","F","G","H","I","J","K","L","M",
                "N","O","P","Q","R","S","T","U","V","W","X","Y","Z">>

LowerChars == <<"a","b","c","d","e","f","g","h","i","j","k","l","m",
                "n","o","p","q","r","s","t","u","v","w","x","y","z">>

ToLowerChar(c) ==
    IF \E i \in 1..26 : UpperChars[i] = c
    THEN LowerChars[CHOOSE i \in 1..26 : UpperChars[i] = c]
    ELSE c

\* String.prototype.toLowerCase
ToLowerCase(s) == [i \in 1..Len(s) |-> ToLowerChar(s[i])]

\* String.prototype.includes
Includes(s, sub) ==
    \E t \in {s} :
        \E i \in 1..(Len(t) - Len(sub) + 1) : SubSeq(t, i, i + Len(sub) - 1) = sub

DigitChars == <<"0","1","2","3","4","5","6","7","8","9">>

RECURSIVE NatToChars(_)
\* decimal digits of a natural number
NatToChars(n) ==
    IF n < 10 THEN <<DigitChars[n + 1]>>
    ELSE NatToChars(n \div 10) \o <<DigitChars[(n % 10) + 1]>>

\* Number -> string as a template literal renders an integer
NumToChars(n) == IF n < 0 THEN <<"-">> \o NatToChars(0 - n) ELSE NatToChars(n)

(***************************************************************************)
(* Caption lookup: getCaptionAtTimestamp                                   *)
(* A caption entry is [text |-> chars, start |-> n, dur |-> n]; start and  *)
(* dur are whole seconds, on which parseFloat yields the number itself.    *)
(***************************************************************************)
Abs(n) == IF n < 0 THEN 0 - n ELSE n

\* const duration = parseFloat(cap.dur) || 2
CapDuration(cap) == IF cap.dur = 0 THEN 2 ELSE cap.dur

\* the predicate of captions.find(...)
CapContains(cap, timestamp) ==
    timestamp >= cap.start /\ timestamp <= cap.start + CapDuration(cap) + 2

\* index of the entry captions.find(...) returns, 0 when it returns undefined
FindContaining(captions, timestamp) ==
    IF \E i \in 1..Len(captions) : CapContains(captions[i], timestamp)
    THEN CHOOSE i \in 1..Len(captions) :
            /\ CapContains(captions[i], timestamp)
            /\ \A j \in 1..(i - 1) : ~CapContains(captions[j], timestamp)
    ELSE 0

RECURSIVE NearestLoopStrict(_, _, _, _)
\* NearestLoop with the tolerance test written diff < 5
NearestLoopStrict(captions, timestamp, i, nearest) ==
    IF i > Len(captions) THEN nearest
    ELSE LET diff == Abs(timestamp - captions[i].start)
             nearestDiffIsLarger ==
                 \/ nearest = 0
                 \/ diff < Abs(timestamp - captions[nearest].start)
         IN  IF nearestDiffIsLarger /\ diff < 5
             THEN NearestLoopStrict(captions, timestamp, i + 1, i)
             ELSE NearestLoopStrict(captions, timestamp, i + 1, nearest)

RECURSIVE NearestLoop(_, _, _, _)
\* the for-loop of phase 2 from entry i on; nearest = 0 stands for null,
\* in which case nearestDiff is Infinity
NearestLoop(captions, timestamp, i, nearest) ==
    IF i > Len(captions) THEN nearest
    ELSE LET diff == Abs(timestamp - captions[i].start)
             nearestDiffIsLarger ==
                 \/ nearest = 0
                 \/ diff < Abs(timestamp - captions[nearest].start)
         IN  IF nearestDiffIsLarger /\ diff <= 5
             THEN NearestLoop(captions, timestamp, i + 1, i)
             ELSE NearestLoop(captions, timestamp, i + 1, nearest)

\* index of the entry whose text is returned, 0 when null is returned
CaptionIndexAtTimestamp(captions, timestamp) ==
    IF Len(captions) = 0 THEN 0
    ELSE IF FindContaining(captions, timestamp) # 0
         THEN FindContaining(captions, timestamp)
         ELSE NearestLoop(captions, timestamp, 1, 0)

getCaptionAtTimestamp(captions, timestamp) ==
    LET i == CaptionIndexAtTimestamp(captions, timestamp)
    IN  IF i = 0 THEN JNull ELSE JStr(captions[i].text)

(***************************************************************************)
(* Keywords and canned texts.  The canned analogies are long sentences in  *)
(* the source; the model keeps their opening words, which is all that      *)
(* distinguishes them.                                                     *)
(***************************************************************************)
KW_goal == <<"g","o","a","l">>

KW_score == <<"s","c","o","r","e">>

KW_finish == <<"f","i","n","i","s","h">>

KW_through == <<"t","h","r","o","u","g","h">>

KW_pass == <<"p","a","s","s">>

KW_offside == <<"o","f","f","s","i","d","e">>

KW_trap == <<"t","r","a","p">>

KW_defend == <<"d","e","f","e","n","d">>

KW_block == <<"b","l","o","c","k">>

KW_tackle == <<"t","a","c","k","l","e">>

KW_save == <<"s","a","v","e">>

KW_keeper == <<"k","e","e","p","e","r">>

KW_goalkeeper == <<"g","o","a","l","k","e","e","p","e","r">>

KW_foul == <<"f","o","u","l">>

KW_card == <<"c","a","r","d">>

KW_corner == <<"c","o","r","n","e","r">>

KW_setpiece == <<"s","e","t"," ","p","i","e","c","e">>

StubTouchdown == <<"T","h","a","t","'","s"," ","a"," ","t","o","u","c","h","d","o","w","n"," ","m","o","m","e","n","t","!">>

StubSeamRoute == <<"T","h","i","n","k"," ","o","f"," ","t","h","a","t"," ","p","a","s","s"," ","l","i","k","e"," ","a"," ","Q","B">>

StubLinebacker == <<"T","h","a","t"," ","d","e","f","e","n","s","i","v","e"," ","p","l","a","y">>

StubSafety == <<"T","h","e"," ","g","o","a","l","k","e","e","p","e","r"," ","m","a","d","e"," ","a"," ","s","a","v","e">>

StubHolding == <<"T","h","a","t","'","s"," ","a"," ","p","r","o","f","e","s","s","i","o","n","a","l"," ","f","o","u","l">>

StubGoalLine == <<"T","h","i","s"," ","s","e","t"," ","p","i","e","c","e">>

StubDefault == <<"T","h","i","s"," ","p","l","a","y"," ","i","s"," ","l","i","k","e">>

GenericPrefix == <<"S","o","c","c","e","r"," ","a","c","t","i","o","n"," ","a","t"," ">>

(***************************************************************************)
(* generateStubNFLAnalogy, determineDiagramType and the generic            *)
(* description.  Their argument is a JSON value; calling toLowerCase on a  *)
(* value that is not a string throws a TypeError, modelled by Throws.      *)
(***************************************************************************)
\* commentary.toLowerCase() throws when commentary is not a string
Throws(commentary) == ~IsStr(commentary)

generateStubNFLAnalogy(commentary) ==
    LET lowerCommentary == ToLowerCase(commentary.str)
    IN  IF Includes(lowerCommentary, KW_goal) \/ Includes(lowerCommentary, KW_score)
        THEN StubTouchdown
        ELSE IF Includes(lowerCommentary, KW_pass) \/ Includes(lowerCommentary, KW_through)
        THEN StubSeamRoute
        ELSE IF Includes(lowerCommentary, KW_defend) \/ Includes(lowerCommentary, KW_block)
                \/ Includes(lowerCommentary, KW_tackle)
        THEN StubLinebacker
        ELSE IF Includes(lowerCommentary, KW_save) \/ Includes(lowerCommentary, KW_keeper)
                \/ Includes(lowerCommentary, KW_goalkeeper)
        THEN StubSafety
        ELSE IF Includes(lowerCommentary, KW_foul) \/ Includes(lowerCommentary, KW_card)
        THEN StubHolding
        ELSE IF Includes(lowerCommentary, KW_corner) \/ Includes(lowerCommentary, KW_setpiece)
        THEN StubGoalLine
        ELSE StubDefault

\* determineDiagramType with the through-ball test ahead of the goal test
determineDiagramTypePassFirst(commentary) ==
    LET lowerCommentary == ToLowerCase(commentary.str)
    IN  IF Includes(lowerCommentary, KW_through) \/ Includes(lowerCommentary, KW_pass)
        THEN "through-ball"
        ELSE IF Includes(lowerCommentary, KW_goal) \/ Includes(lowerCommentary, KW_score)
                \/ Includes(lowerCommentary, KW_finish)
        THEN "goal"
        ELSE IF Includes(lowerCommentary, KW_offside) \/ Includes(lowerCommentary, KW_trap)
        THEN "offside-trap"
        ELSE "defensive"

determineDiagramType(commentary) ==
    LET lowerCommentary == ToLowerCase(commentary.str)
    IN  IF Includes(lowerCommentary, KW_goal) \/ Includes(lowerCommentary, KW_score)
           \/ Includes(lowerCommentary, KW_finish)
        THEN "goal"
        ELSE IF Includes(lowerCommentary, KW_through) \/ Includes(lowerCommentary, KW_pass)
        THEN "through-ball"
        ELSE IF Includes(lowerCommentary, KW_offside) \/ Includes(lowerCommentary, KW_trap)
        THEN "offside-trap"
        ELSE "defensive"

\* ts % 60 in JavaScript: the remainder takes the sign of the dividend
JsRem(n, d) == IF n < 0 THEN 0 - ((0 - n) % d) ELSE n % d

\* String.prototype.padStart(2, '0')
PadStart2(s) == IF Len(s) < 2 THEN <<"0">> \o s ELSE s

\* the generic description with the seconds not padded
GenericDescriptionUnpadded(ts) ==
    GenericPrefix \o NumToChars(ts \div 60) \o <<":">> \o NumToChars(JsRem(ts, 60))

\* `Soccer action at ${Math.floor(ts / 60)}:${Math.floor(ts % 60).toString().padStart(2, '0')}`
GenericDescription(ts) ==
    GenericPrefix \o NumToChars(ts \div 60) \o <<":">> \o PadStart2(NumToChars(JsRem(ts, 60)))

(***************************************************************************)
(* Request parsing and the cache key                                       *)
(***************************************************************************)
IsDigit(c) == \E i \in 1..10 : DigitChars[i] = c

DigitValue(c) == (CHOOSE i \in 1..10 : DigitChars[i] = c) - 1

RECURSIVE DigitsPrefixValue(_, _, _)
\* value of the longest prefix of digits of s from position i on
DigitsPrefixValue(s, i, acc) ==
    IF i > Len(s) \/ ~IsDigit(s[i]) THEN acc
    ELSE DigitsPrefixValue(s, i + 1, acc * 10 + DigitValue(s[i]))

\* parseFloat(timestamp) || 0 on a number, a string of digits or undefined;
\* NaN (no leading digit, undefined, null) and 0 both give 0
ParseTimestamp(timestamp) ==
    IF IsNum(timestamp) THEN timestamp.num
    ELSE IF IsStr(timestamp) THEN DigitsPrefixValue(timestamp.str, 1, 0)
    ELSE 0

\* Bucket without the rounding: the key carries the timestamp itself
BucketExact(ts) == ts

\* Math.floor(ts / 5) * 5
Bucket(ts) == (ts \div 5) * 5

\* the key carrying the timestamp itself
CacheKeyExact(videoId, ts) == videoId.str \o <<"-">> \o NumToChars(ts)

\* `${videoId}-${Math.floor(ts / 5) * 5}`
CacheKey(videoId, ts) == videoId.str \o <<"-">> \o NumToChars(Bucket(ts))

(***************************************************************************)
(* Bounds and input domains                                                *)
(***************************************************************************)
\* number of requests the clients issue
MaxReqs == 2

\* an entry's age is counted up to MaxAge periods, then no further
MaxAge == 2

\* documented lifetime of a cached result, in periods of five minutes
TTL == 1

Reqs == 1..MaxReqs

TextShortPass == <<"S","h","o","r","t"," ","p","a","s","s"," ","i","n","s","i","d","e">>

TextGoal == <<"G","O","A","L","!">>

CaptionGoalPass == <<"G","o","a","l"," ","f","r","o","m"," ","a"," ","p","a","s","s">>

AiText == <<"A"," ","H","a","i","l"," ","M","a","r","y">>

\* a text field of the response body that holds a JSON number
AiNonText == JNum(7)

\* the caption list of the documented scenario
ExampleCaptions ==
    << [text |-> TextShortPass, start |-> 10, dur |-> 2],
       [text |-> TextGoal, start |-> 40, dur |-> 3] >>

\* what getSubtitles may resolve with: no lines at all, or the example list
CaptionSets == { <<>>, ExampleCaptions }

VideoIdInputs == { JUndefined, JStr(<<"x">>) }

TimestampInputs == { JNum(12), JStr(<<"1","4">>), JNum(16) }

\* req.body.caption: missing, a string, or a JSON number
CaptionInputs == { JUndefined, JStr(CaptionGoalPass), JNum(42) }

\* outcomes of the request to api.anthropic.com: a text block, a body
\* without text, a non-OK status, a network error, a body that is not JSON
\* or has no content list, a body whose text field is not a string
GenOutcomes == { "ok", "empty", "status", "network", "malformed", "nontext" }

(***************************************************************************)
(* State                                                                   *)
(***************************************************************************)
VARIABLES
    aiProviderEnv,   \* process.env.AI_PROVIDER: "unset", "stub", "openai", "claude"
    anthropicKey,    \* ANTHROPIC_API_KEY is set
    openaiKey,       \* OPENAI_API_KEY is set
    captionsCache,   \* Map videoId -> caption list
    analogyCache,    \* Map cache key -> stored result
    req,             \* the requests, one record each
    writeCount,      \* history: analogyCache.set calls per key
    genCount,        \* history: generation requests sent per key
    entryAge,        \* history: periods elapsed since a key was last set
    paidCalls,       \* history: paid APIs a request was sent to
    fCaptions,       \* lookup harness: the caption list passed in
    fTimestamp,      \* lookup harness: the timestamp passed in
    fResult,         \* lookup harness: what getCaptionAtTimestamp returned
    fCalls,          \* lookup harness: calls made so far
    tCommentary,     \* text harness: the commentary passed in
    tDiagram,        \* text harness: what determineDiagramType returned
    client,          \* front end: one call of the generateAnalogy client
    page,            \* front end: the Index page (videoId, lastFetchedTime, analysis)
    zone             \* front end: the VideoZone component (player, timer ref, timers)

serverVars == << aiProviderEnv, anthropicKey, openaiKey, captionsCache, analogyCache,
                 req, writeCount, genCount, entryAge, paidCalls >>

findVars == << fCaptions, fTimestamp, fResult, fCalls, tCommentary, tDiagram >>

frontVars == << client, page, zone >>

vars == << serverVars, findVars, frontVars >>

envVars == << aiProviderEnv, anthropicKey, openaiKey, findVars, frontVars >>

\* const AI_PROVIDER = (process.env.AI_PROVIDER || 'stub').toLowerCase()
AI_PROVIDER == IF aiProviderEnv = "unset" THEN "stub" ELSE aiProviderEnv

(***************************************************************************)
(* Maps                                                                    *)
(***************************************************************************)
MapSet(m, k, v) == [x \in (DOMAIN m) \cup {k} |-> IF x = k THEN v ELSE m[x]]

Count(m, k) == IF k \in DOMAIN m THEN m[k] ELSE 0

Incr(m, k) == MapSet(m, k, Count(m, k) + 1)

EmptyMap == [x \in {} |-> 0]

(***************************************************************************)
(* Requests and responses                                                  *)
(***************************************************************************)
NoRes == [status |-> 0]

\* the lookup harness has not called the function
NotCalled == [notCalled |-> TRUE]

Res400 == [status |-> 400, error |-> "videoId is required"]

Res500 == [status |-> 500, error |-> "Internal server error"]

ResOk(body) == [status |-> 200, body |-> body]

IdleReq ==
    [ pc |-> "idle",              \* idle, awaitCaptions, awaitGen, done
      route |-> "none",           \* analogy, captions, explain
      videoId |-> JUndefined,
      ts |-> 0,
      providedCaption |-> JUndefined,   \* history: req.body.caption, read on a miss
      commentary |-> JUndefined,
      res |-> NoRes,
      hung |-> FALSE,             \* the pending network call will never settle
      capOutcome |-> "none",      \* none, data, empty, error
      capCalls |-> 0,             \* getSubtitles calls made
      genCalls |-> 0,             \* generation requests sent
      genOutcome |-> "none",      \* history: none, nokey, text, nontext, failed
      doneBefore |-> {},          \* requests answered before this one arrived
      writesAtStart |-> 0,        \* writeCount of the key on arrival
      writesAtDone |-> 0,         \* writeCount of the key at the response
      hitAge |-> 0 ]              \* age of the entry a cache hit returned

Responded == { r \in Reqs : req[r].pc = "done" }

\* res.json / res.status().json: the handler is finished
Respond(rq, res, writes) ==
    [rq EXCEPT !.pc = "done", !.res = res, !.writesAtDone = writes]

\* the lookup harness at rest
FindIdle ==
    /\ fCaptions = <<>>
    /\ fTimestamp = 0
    /\ fResult = NotCalled
    /\ fCalls = 0
    /\ tCommentary = <<>>
    /\ tDiagram = "none"

\* the generateAnalogy client before its call
ClientIdle ==
    [ videoId |-> <<"x">>, timestamp |-> 0, settled |-> "idle", result |-> NotCalled ]

\* the Index page after its first render: no video, the ref at -1, the
\* placeholder texts on display
PageIdle ==
    [ videoId |-> JNull,
      lastFetchedTime |-> 0 - 1,
      analysis |-> [ commentary |-> <<"P","a","s","t","e"," ","a"," ","U","R","L">>,
                     nflAnalogy |-> JStr(<<"N","F","L"," ","a","n","a","l","o","g","i","e","s">>),
                     fieldDiagram |-> "defensive",
                     isLoading |-> FALSE,
                     timestamp |-> 0 ],
      inFlight |-> {},            \* the generateAnalogy calls not yet settled
      issued |-> <<>>,            \* history: the requests issued, in order
      report |-> [ n |-> 0, kind |-> "none", time |-> 0, first |-> FALSE,
                   loaded |-> FALSE, issued |-> FALSE ],   \* history: the last report
      fresh |-> FALSE ]           \* history: no report yet since the video was set

\* the VideoZone component after its first render: the IFrame API not yet
\* loaded, no video source, no player
ZoneIdle ==
    [ mounted |-> TRUE,
      isApiReady |-> FALSE,
      videoSource |-> "none",     \* none, or a parsed source: x, y (YouTube), vimeo
      cleanup |-> FALSE,          \* the player effect returned its cleanup function
      player |-> "none",          \* playerRef.current: none, or the player's state
      timeIntervalRef |-> 0,      \* timeIntervalRef.current: 0 for null, or a timer id
      timers |-> {},              \* the intervals set and not cleared
      nextId |-> 1,               \* the id the next setInterval returns
      last |-> "none" ]           \* history: the last thing that happened

\* the front end at rest
FrontIdle ==
    /\ client = ClientIdle
    /\ page = PageIdle
    /\ zone = ZoneIdle

\* the server after start-up, nothing requested yet
ServerIdle ==
    /\ captionsCache = EmptyMap
    /\ analogyCache = EmptyMap
    /\ req = [r \in Reqs |-> IdleReq]
    /\ writeCount = EmptyMap
    /\ genCount = EmptyMap
    /\ entryAge = EmptyMap
    /\ paidCalls = {}

Init ==
    /\ aiProviderEnv \in {"unset", "stub", "openai", "claude"}
    /\ anthropicKey \in BOOLEAN
    /\ openaiKey \in BOOLEAN
    /\ ServerIdle
    /\ FindIdle
    /\ FrontIdle

(***************************************************************************)
(* fetchCaptions up to its await (lines 290-296)                           *)
(***************************************************************************)
\* CaptionsCached taking an empty stored list for a missing one
CaptionsCachedUnlessEmpty(videoId) ==
    /\ videoId.str \in DOMAIN captionsCache
    /\ captionsCache[videoId.str] # <<>>

\* captionsCache.has(videoId)
CaptionsCached(videoId) == videoId.str \in DOMAIN captionsCache

(***************************************************************************)
(* POST /api/generate-analogy                                              *)
(***************************************************************************)
\* the stored copy left as the live result is
StoredCopyAsIs(result) == result

\* { ...result, cached: true }
StoredCopy(result) == [result EXCEPT !.cached = TRUE]

\* lines 477-491: diagram, result, analogyCache.set, res.json
Finish(r, rq, nflAnalogy) ==
    IF Throws(rq.commentary)
    THEN /\ req' = [req EXCEPT ![r] =
                      Respond(rq, Res500, Count(writeCount, CacheKey(rq.videoId, rq.ts)))]
         /\ UNCHANGED << analogyCache, writeCount, entryAge >>
    ELSE \E cacheKey \in { CacheKey(rq.videoId, rq.ts) } :
         \E result \in { [ originalCommentary |-> rq.commentary.str,
                            nflAnalogy |-> nflAnalogy,
                            fieldDiagram |-> determineDiagramType(rq.commentary),
                            timestamp |-> rq.ts,
                            videoId |-> rq.videoId.str,
                            cached |-> FALSE ] } :
             /\ analogyCache' = MapSet(analogyCache, cacheKey, StoredCopy(result))
             /\ writeCount' = Incr(writeCount, cacheKey)
             /\ entryAge' = MapSet(entryAge, cacheKey, 0)
             /\ req' = [req EXCEPT ![r] =
                          Respond(rq, ResOk(result), Count(writeCount, cacheKey) + 1)]

\* lines 470-476 and generateNFLAnalogy up to its fetch: the generic
\* description, then the stub when no key is set, else the request is sent
Generate(r, rq0) ==
    \E commentary \in { IF Truthy(rq0.commentary) THEN rq0.commentary
                         ELSE JStr(GenericDescription(rq0.ts)) } :
    \E rq \in { [rq0 EXCEPT !.commentary = commentary,
                             !.genOutcome = IF anthropicKey THEN "none" ELSE "nokey"] } :
    \E cacheKey \in { CacheKey(rq.videoId, rq.ts) } :
        IF ~anthropicKey
        THEN /\ IF Throws(commentary)
                THEN /\ req' = [req EXCEPT ![r] =
                                  Respond(rq, Res500, Count(writeCount, cacheKey))]
                     /\ UNCHANGED << analogyCache, writeCount, entryAge >>
                ELSE \E nflAnalogy \in { JStr(generateStubNFLAnalogy(commentary)) } :
                        Finish(r, rq, nflAnalogy)
             /\ UNCHANGED << genCount, paidCalls >>
        ELSE /\ req' = [req EXCEPT ![r] =
                          [rq EXCEPT !.pc = "awaitGen", !.genCalls = @ + 1]]
             /\ genCount' = Incr(genCount, cacheKey)
             /\ paidCalls' = paidCalls \cup {"anthropic"}
             /\ UNCHANGED << analogyCache, writeCount, entryAge >>

\* the fetch is made although a caption came with the request
CaptionProvidedNever(providedCaption) == FALSE

\* let commentary = providedCaption; if (!commentary) fetch
CaptionProvided(providedCaption) == Truthy(providedCaption)

\* requests are numbered in the order they arrive
CanStart(r) ==
    /\ req[r].pc = "idle"
    /\ IF r = 1 THEN TRUE ELSE req[r - 1].pc # "idle"

\* lines 446-468: validation, cache check, caption acquisition
StartAnalogy(r, videoId, timestamp, providedCaption) ==
    /\ CanStart(r)
    /\ LET rq == [req[r] EXCEPT !.route = "analogy", !.videoId = videoId,
                                !.doneBefore = Responded]
       IN  IF ~Truthy(videoId)
           THEN /\ req' = [req EXCEPT ![r] = Respond(rq, Res400, 0)]
                /\ UNCHANGED << captionsCache, analogyCache, writeCount, genCount,
                                entryAge, paidCalls >>
           ELSE LET ts == ParseTimestamp(timestamp)
                    cacheKey == CacheKey(videoId, ts)
                    rq0 == [rq EXCEPT !.ts = ts,
                                      !.writesAtStart = Count(writeCount, cacheKey)]
                    rq1 == [rq0 EXCEPT !.providedCaption = providedCaption]
                IN  IF cacheKey \in DOMAIN analogyCache
                    THEN /\ req' = [req EXCEPT ![r] =
                                      [Respond(rq0, ResOk(analogyCache[cacheKey]),
                                               Count(writeCount, cacheKey))
                                       EXCEPT !.hitAge = entryAge[cacheKey]]]
                         /\ UNCHANGED << captionsCache, analogyCache, writeCount,
                                         genCount, entryAge, paidCalls >>
                    ELSE IF CaptionProvided(providedCaption)
                    THEN /\ Generate(r, [rq1 EXCEPT !.commentary = providedCaption])
                         /\ UNCHANGED captionsCache
                    ELSE IF CaptionsCached(videoId)
                    THEN /\ Generate(r, [rq1 EXCEPT !.commentary =
                                getCaptionAtTimestamp(captionsCache[videoId.str], ts)])
                         /\ UNCHANGED captionsCache
                    ELSE /\ req' = [req EXCEPT ![r] =
                                      [rq1 EXCEPT !.pc = "awaitCaptions", !.capCalls = @ + 1]]
                         /\ UNCHANGED << captionsCache, analogyCache, writeCount,
                                         genCount, entryAge, paidCalls >>
    /\ UNCHANGED envVars

(***************************************************************************)
(* GET /api/captions/:videoId                                              *)
(***************************************************************************)
CaptionsBody(videoId, captions) ==
    [videoId |-> videoId.str, captions |-> captions, count |-> Len(captions)]

StartCaptions(r, videoId) ==
    /\ CanStart(r)
    /\ Truthy(videoId)
    /\ LET rq == [req[r] EXCEPT !.route = "captions", !.videoId = videoId,
                                !.doneBefore = Responded]
       IN  IF CaptionsCached(videoId)
           THEN req' = [req EXCEPT ![r] =
                          Respond(rq, ResOk(CaptionsBody(videoId, captionsCache[videoId.str])), 0)]
           ELSE req' = [req EXCEPT ![r] =
                          [rq EXCEPT !.pc = "awaitCaptions", !.capCalls = @ + 1]]
    /\ UNCHANGED << envVars, captionsCache, analogyCache, writeCount,
                    genCount, entryAge, paidCalls >>

(***************************************************************************)
(* fetchCaptions after its await (lines 296-306), then the caller goes on  *)
(***************************************************************************)
\* getSubtitles resolved with a caption list
CaptionsResolve(r, captions) ==
    /\ req[r].pc = "awaitCaptions"
    /\ ~req[r].hung
    /\ captionsCache' = MapSet(captionsCache, req[r].videoId.str, captions)
    /\ LET rq == [req[r] EXCEPT !.capOutcome = IF captions = <<>> THEN "empty" ELSE "data"]
       IN  IF rq.route = "captions"
           THEN /\ req' = [req EXCEPT ![r] =
                             Respond(rq, ResOk(CaptionsBody(rq.videoId, captions)), 0)]
                /\ UNCHANGED << analogyCache, writeCount, genCount, entryAge, paidCalls >>
           ELSE Generate(r, [rq EXCEPT !.commentary = getCaptionAtTimestamp(captions, rq.ts)])
    /\ UNCHANGED envVars

\* getSubtitles rejected and is called once more
CaptionsRejectRetrying(r) ==
    /\ req[r].pc = "awaitCaptions"
    /\ ~req[r].hung
    /\ req[r].capCalls < 2
    /\ req' = [req EXCEPT ![r].capCalls = @ + 1]
    /\ UNCHANGED << envVars, captionsCache, analogyCache, writeCount, genCount,
                    entryAge, paidCalls >>

\* getSubtitles rejected: fetchCaptions returns []
CaptionsReject(r) ==
    /\ req[r].pc = "awaitCaptions"
    /\ ~req[r].hung
    /\ LET rq == [req[r] EXCEPT !.capOutcome = "error"]
       IN  IF rq.route = "captions"
           THEN /\ req' = [req EXCEPT ![r] =
                             Respond(rq, ResOk(CaptionsBody(rq.videoId, <<>>)), 0)]
                /\ UNCHANGED << analogyCache, writeCount, genCount, entryAge, paidCalls >>
           ELSE Generate(r, [rq EXCEPT !.commentary = getCaptionAtTimestamp(<<>>, rq.ts)])
    /\ UNCHANGED << envVars, captionsCache >>

(***************************************************************************)
(* generateNFLAnalogy after its await (lines 384-393), then lines 477-491  *)
(***************************************************************************)
\* what the reply holds: a text, a text field that is no string, or nothing
\* usable (an error was thrown, or the text is missing or empty)
ReplyKind(outcome) ==
    IF outcome = "ok" THEN "text"
    ELSE IF outcome = "nontext" THEN "nontext"
    ELSE "failed"

\* data.content[0]?.text || stub on a body that parsed, the catch otherwise
GenReply(r, outcome) ==
    /\ req[r].pc = "awaitGen"
    /\ ~req[r].hung
    /\ \E rq \in { [req[r] EXCEPT !.genOutcome = ReplyKind(outcome)] } :
          IF outcome = "ok"
          THEN Finish(r, rq, JStr(AiText))
          ELSE IF outcome = "nontext"
          THEN Finish(r, rq, AiNonText)
          ELSE IF Throws(rq.commentary)
          THEN /\ req' = [req EXCEPT ![r] =
                            Respond(rq, Res500,
                                    Count(writeCount, CacheKey(rq.videoId, rq.ts)))]
               /\ UNCHANGED << analogyCache, writeCount, entryAge >>
          ELSE \E nflAnalogy \in { JStr(generateStubNFLAnalogy(rq.commentary)) } :
                  Finish(r, rq, nflAnalogy)
    /\ UNCHANGED << envVars, captionsCache, genCount, paidCalls >>

(***************************************************************************)
(* Environment                                                             *)
(***************************************************************************)
\* the service a request waits for never answers
Hang(r) ==
    /\ req[r].pc \in {"awaitCaptions", "awaitGen", "awaitOpenAI", "awaitClaude"}
    /\ ~req[r].hung
    /\ req' = [req EXCEPT ![r].hung = TRUE]
    /\ UNCHANGED << envVars, captionsCache, analogyCache, writeCount,
                    genCount, entryAge, paidCalls >>

\* one period of time passes
Tick ==
    /\ \E k \in DOMAIN entryAge : entryAge[k] < MaxAge
    /\ entryAge' = [k \in DOMAIN entryAge |->
                       IF entryAge[k] < MaxAge THEN entryAge[k] + 1 ELSE entryAge[k]]
    /\ UNCHANGED << envVars, captionsCache, analogyCache, req, writeCount,
                    genCount, paidCalls >>

(***************************************************************************)
(* POST /api/explain: generateExplanation and its providers.  The response *)
(* body is modelled by the provider that produced the text.                *)
(***************************************************************************)
\* lines 270-279, generateExplanation, and a provider up to its fetch
StartExplain(r, hasUserMessage) ==
    /\ CanStart(r)
    /\ LET rq == [req[r] EXCEPT !.route = "explain", !.doneBefore = Responded]
       IN  IF ~hasUserMessage
           THEN /\ req' = [req EXCEPT ![r] =
                             Respond(rq, [status |-> 400, error |-> "userMessage is required"], 0)]
                /\ UNCHANGED paidCalls
           ELSE IF AI_PROVIDER = "openai" /\ openaiKey
           THEN /\ req' = [req EXCEPT ![r] = [rq EXCEPT !.pc = "awaitOpenAI"]]
                /\ paidCalls' = paidCalls \cup {"openai"}
           ELSE IF AI_PROVIDER = "claude" /\ anthropicKey
           THEN /\ req' = [req EXCEPT ![r] = [rq EXCEPT !.pc = "awaitClaude"]]
                /\ paidCalls' = paidCalls \cup {"anthropic"}
           ELSE /\ req' = [req EXCEPT ![r] = Respond(rq, ResOk("stub"), 0)]
                /\ UNCHANGED paidCalls
    /\ UNCHANGED << envVars, captionsCache, analogyCache, writeCount, genCount, entryAge >>

\* the provider answered (ok), or failed and the stub response is used
ExplainReply(r, ok) ==
    /\ req[r].pc \in {"awaitOpenAI", "awaitClaude"}
    /\ ~req[r].hung
    /\ req' = [req EXCEPT ![r] =
                 Respond(req[r], ResOk(IF ~ok THEN "stub"
                                       ELSE IF req[r].pc = "awaitOpenAI" THEN "openai"
                                       ELSE "claude"), 0)]
    /\ UNCHANGED << envVars, captionsCache, analogyCache, writeCount, genCount,
                    entryAge, paidCalls >>

(***************************************************************************)
(* Lookup harness: getCaptionAtTimestamp applied to every chronologically  *)
(* ordered caption list of up to MaxCaps entries                           *)
(***************************************************************************)
\* longest caption list of the harness
MaxCaps == 2

\* calls of the lookup on one list and timestamp
MaxCalls == 2

TextOffside == <<"O","f","f","s","i","d","e"," ","t","r","a","p">>

TextKeeper == <<"K","e","e","p","e","r"," ","s","a","v","e","s">>

\* the i-th entry of a harness list carries the i-th text
FTexts == << TextShortPass, TextGoal, TextOffside, TextKeeper >>

FStarts == {10, 12, 14, 40}

FDurs == {0, 1, 2, 3}

FTimes == (8..20) \cup {25} \cup (36..46)

FCaptionSets ==
    { [i \in 1..Len(q) |-> [text |-> FTexts[i], start |-> q[i].start, dur |-> q[i].dur]] :
        q \in { p \in UNION { [1..n -> [start : FStarts, dur : FDurs]] : n \in 0..MaxCaps } :
                  \A i \in 1..(Len(p) - 1) : p[i].start <= p[i + 1].start } }

FindInit ==
    /\ aiProviderEnv = "unset"
    /\ anthropicKey = FALSE
    /\ openaiKey = FALSE
    /\ ServerIdle
    /\ fCaptions \in FCaptionSets
    /\ fTimestamp \in FTimes
    /\ fResult = NotCalled
    /\ fCalls = 0
    /\ tCommentary = <<>>
    /\ tDiagram = "none"
    /\ FrontIdle

\* a lookup that takes the first entry off the list it was given
LookupShifting ==
    /\ fCalls < MaxCalls
    /\ fCalls' = fCalls + 1
    /\ fResult' = getCaptionAtTimestamp(fCaptions, fTimestamp)
    /\ fCaptions' = IF fCaptions = <<>> THEN fCaptions ELSE Tail(fCaptions)
    /\ UNCHANGED << serverVars, fTimestamp, tCommentary, tDiagram, frontVars >>

\* one call of getCaptionAtTimestamp on the same list and timestamp; the
\* function only reads its arguments
Lookup ==
    /\ fCalls < MaxCalls
    /\ fCalls' = fCalls + 1
    /\ fResult' = getCaptionAtTimestamp(fCaptions, fTimestamp)
    /\ UNCHANGED << serverVars, fCaptions, fTimestamp, tCommentary, tDiagram, frontVars >>

FindNext == Lookup

FindSpec == FindInit /\ [][FindNext]_vars

(***************************************************************************)
(* Text harness: determineDiagramType applied to commentaries of one or    *)
(* two words, in mixed case                                                *)
(***************************************************************************)
TWords ==
    { <<"g","o","a","l">>,
      <<"S","C","O","R","E">>,
      <<"F","i","n","i","s","h">>,
      <<"t","h","r","o","u","g","h">>,
      <<"P","a","s","s">>,
      <<"o","f","f","s","i","d","e">>,
      <<"T","r","a","p">>,
      <<"d","e","f","e","n","d">>,
      <<"B","L","O","C","K">>,
      <<"t","a","c","k","l","e">>,
      <<"s","a","v","e">>,
      <<"K","e","e","p","e","r">>,
      <<"f","o","u","l">>,
      <<"c","a","r","d">>,
      <<"c","o","r","n","e","r">>,
      <<"s","e","t"," ","p","i","e","c","e">>,
      <<"k","i","c","k">> }

\* one word, or two words with a space between
TTexts == TWords \cup { w1 \o <<" ">> \o w2 : w1 \in TWords, w2 \in TWords }

TextInit ==
    /\ aiProviderEnv = "unset"
    /\ anthropicKey = FALSE
    /\ openaiKey = FALSE
    /\ ServerIdle
    /\ fCaptions = <<>>
    /\ fTimestamp = 0
    /\ fResult = NotCalled
    /\ fCalls = 0
    /\ tCommentary \in TTexts
    /\ tDiagram = "none"
    /\ FrontIdle

Classify ==
    /\ tDiagram = "none"
    /\ tDiagram' = determineDiagramType(JStr(tCommentary))
    /\ UNCHANGED << serverVars, fCaptions, fTimestamp, fResult, fCalls, tCommentary, frontVars >>

TextNext == Classify

TextSpec == TextInit /\ [][TextNext]_vars

(***************************************************************************)
(* Specification                                                           *)
(***************************************************************************)
Next ==
    \/ \E r \in Reqs, videoId \in VideoIdInputs, timestamp \in TimestampInputs,
          providedCaption \in CaptionInputs :
            StartAnalogy(r, videoId, timestamp, providedCaption)
    \/ \E r \in Reqs, videoId \in VideoIdInputs : StartCaptions(r, videoId)
    \/ \E r \in Reqs, hasUserMessage \in BOOLEAN : StartExplain(r, hasUserMessage)
    \/ \E r \in Reqs, captions \in CaptionSets : CaptionsResolve(r, captions)
    \/ \E r \in Reqs : CaptionsReject(r)
    \/ \E r \in Reqs, outcome \in GenOutcomes : GenReply(r, outcome)
    \/ \E r \in Reqs, ok \in BOOLEAN : ExplainReply(r, ok)

Spec == Init /\ [][Next]_vars

\* the server while time passes: cached entries age
TimedNext == Next \/ Tick

TimedSpec == Init /\ [][TimedNext]_vars

\* the server with services that may never answer; a call that is not hung
\* settles, and the event loop then runs the continuation
FairNext == Next \/ \E r \in Reqs : Hang(r)

\* the configurations with AI_PROVIDER=claude, with and without a key
FairInit ==
    /\ aiProviderEnv = "claude"
    /\ anthropicKey \in BOOLEAN
    /\ openaiKey = FALSE
    /\ ServerIdle
    /\ FindIdle
    /\ FrontIdle

FairSpec ==
    /\ FairInit
    /\ [][FairNext]_vars
    /\ \A r \in Reqs :
          /\ WF_vars(\E captions \in CaptionSets : CaptionsResolve(r, captions))
          /\ WF_vars(\E outcome \in GenOutcomes : GenReply(r, outcome))
          /\ WF_vars(\E ok \in BOOLEAN : ExplainReply(r, ok))

\* the server asked for analogies, without a caption, at playback times from
\* the first second to beyond an hour
WideTimestamps == { 0, 9, 12, 20, 25, 59, 60, 61, 125, 495, 3599, 3600, 3725 }

WideInit ==
    /\ aiProviderEnv = "unset"
    /\ anthropicKey \in BOOLEAN
    /\ openaiKey = FALSE
    /\ ServerIdle
    /\ FindIdle
    /\ FrontIdle

WideNext ==
    \/ \E r \in Reqs, t \in WideTimestamps :
            StartAnalogy(r, JStr(<<"x">>), JNum(t), JUndefined)
    \/ \E r \in Reqs, captions \in CaptionSets : CaptionsResolve(r, captions)
    \/ \E r \in Reqs : CaptionsReject(r)
    \/ \E r \in Reqs, outcome \in GenOutcomes : GenReply(r, outcome)

WideSpec == WideInit /\ [][WideNext]_vars

(***************************************************************************)
(* Properties of the server                                                *)
(***************************************************************************)
DiagramKinds == {"goal", "through-ball", "offside-trap", "defensive"}

\* the requests to /api/generate-analogy that carried a videoId
AnalogyReqs == { r \in Reqs : req[r].route = "analogy" /\ Truthy(req[r].videoId) }

Answered(r) == req[r].pc = "done"

HasResult(r) == Answered(r) /\ req[r].res.status = 200

\* C1: every request to /api/generate-analogy that carries a videoId is
\* answered with a well-formed result (non-empty commentary, non-empty
\* analogy, a diagram kind of the four) and never with an error response,
\* whatever timestamp and caption it carries and whatever the services do.
C1_AlwaysWellFormed ==
    \A r \in AnalogyReqs :
        Answered(r) =>
            /\ req[r].res.status = 200
            /\ req[r].res.body.originalCommentary # <<>>
            /\ IsStr(req[r].res.body.nflAnalogy)
            /\ req[r].res.body.nflAnalogy.str # <<>>
            /\ req[r].res.body.fieldDiagram \in DiagramKinds

SameContent(a, b) ==
    /\ a.originalCommentary = b.originalCommentary
    /\ a.nflAnalogy = b.nflAnalogy
    /\ a.fieldDiagram = b.fieldDiagram

\* C2: when a request for a videoId has been answered with a result and a
\* request for the same videoId and the same 5-second bucket arrives
\* afterwards, the second is answered at once from the cache: cached = true,
\* no call to the caption service, no generation request, and (no other
\* request having written the key in between) the first request's
\* commentary, analogy and diagram.
C2_SecondIsCacheHit ==
    \A r1, r2 \in AnalogyReqs :
        ( /\ r1 \in req[r2].doneBefore
          /\ HasResult(r1)
          /\ req[r1].videoId = req[r2].videoId
          /\ req[r1].ts \div 5 = req[r2].ts \div 5 )
        => /\ HasResult(r2)
           /\ req[r2].res.body.cached = TRUE
           /\ req[r2].capCalls = 0
           /\ req[r2].genCalls = 0
           /\ req[r2].writesAtStart = req[r1].writesAtDone
                 => SameContent(req[r2].res.body, req[r1].res.body)

\* a miss at one timestamp, then a hit at another timestamp of the bucket
C2_Witness ==
    \E r1, r2 \in AnalogyReqs :
        /\ r1 \in req[r2].doneBefore
        /\ HasResult(r1)
        /\ req[r1].res.body.cached = FALSE
        /\ req[r1].ts # req[r2].ts
        /\ req[r1].ts \div 5 = req[r2].ts \div 5
        /\ HasResult(r2)
        /\ req[r2].res.body.cached = TRUE
        /\ SameContent(req[r2].res.body, req[r1].res.body)

\* C3: a cached result is never returned once its time-to-live has elapsed
\* (checked under TimedSpec).
C3_NoHitAfterTTL ==
    \A r \in AnalogyReqs :
        (HasResult(r) /\ req[r].res.body.cached = TRUE) => req[r].hitAge <= TTL

\* C4: every request is eventually answered, also when a service never
\* replies (checked under FairSpec).
C4_EveryRequestAnswered ==
    \A r \in Reqs : (req[r].pc # "idle") ~> (req[r].pc = "done")

\* C5: for one cache key the generation service is called at most once and
\* the key is written at most once, under any interleaving of requests.
C5_OncePerKey ==
    /\ \A k \in DOMAIN genCount : genCount[k] <= 1
    /\ \A k \in DOMAIN writeCount : writeCount[k] <= 1

\* the step in which request r gets the outcome of its getSubtitles call
CaptionOutcomeStep(r) == req[r].pc = "awaitCaptions" /\ req'[r].pc # "awaitCaptions"

\* C6: whenever the caption service yields no usable captions (it fails, or
\* it returns no data), nothing is stored in the caption cache.
C6_FailureNotCached ==
    [][ \A r \in Reqs :
          (CaptionOutcomeStep(r) /\ req'[r].capOutcome \in {"empty", "error"})
          => captionsCache' = captionsCache ]_vars

\* the step in which request r arrives and calls fetchCaptions
FetchCaptionsStep(r) ==
    /\ req[r].pc = "idle"
    /\ req'[r].route \in {"analogy", "captions"}
    /\ Truthy(req'[r].videoId)

C8_StubNeverPays == AI_PROVIDER = "stub" => paidCalls = {}

(***************************************************************************)
(* Properties of getCaptionAtTimestamp (checked under FindSpec)            *)
(***************************************************************************)
Looked == fResult # NotCalled

\* the entries of the list within five seconds of the timestamp
WithinFive == { i \in 1..Len(fCaptions) : Abs(fTimestamp - fCaptions[i].start) <= 5 }

\* the result is the text of an entry of WithinFive nearest to the timestamp,
\* or null when there is none
IsNearestOrNull ==
    IF WithinFive = {} THEN fResult = JNull
    ELSE \E i \in WithinFive :
            /\ \A j \in 1..Len(fCaptions) :
                  Abs(fTimestamp - fCaptions[i].start) <= Abs(fTimestamp - fCaptions[j].start)
            /\ fResult = JStr(fCaptions[i].text)

\* the first phase found no entry
NoWindowCovers == \A i \in 1..Len(fCaptions) : ~CapContains(fCaptions[i], fTimestamp)

\* C9: when the first phase matches no entry, the lookup returns (the text
\* of) an entry with the least |t - start| if some entry is within 5 seconds
\* and null if none is; on the documented list the lookups at 11, 25 and 38
\* give the first entry, null and the second entry.
C9_NearestWithinFive ==
    Looked =>
        /\ NoWindowCovers => IsNearestOrNull
        /\ fCaptions = ExampleCaptions =>
              /\ fTimestamp = 11 => fResult = JStr(TextShortPass)
              /\ fTimestamp = 25 => fResult = JNull
              /\ fTimestamp = 38 => fResult = JStr(TextGoal)

\* a gap of the documented list, with the later entry the nearer one
C9_Witness ==
    /\ fCaptions = ExampleCaptions
    /\ fTimestamp = 38
    /\ NoWindowCovers
    /\ fResult = JStr(TextGoal)

\* the entries whose window start .. start + duration + 2 holds the timestamp
InStatedWindow ==
    { i \in 1..Len(fCaptions) :
        /\ fCaptions[i].start <= fTimestamp
        /\ fTimestamp <= fCaptions[i].start + fCaptions[i].dur + 2 }

\* C10: the lookup returns the first entry with
\* start <= t <= start + duration + 2, for every duration >= 0, and goes on
\* to the nearest-entry phase only when there is no such entry.
C10_StatedWindow ==
    Looked =>
        IF InStatedWindow # {}
        THEN \E i \in InStatedWindow :
                /\ \A j \in InStatedWindow : i <= j
                /\ fResult = JStr(fCaptions[i].text)
        ELSE IsNearestOrNull

\* the entries whose own interval start .. start + duration holds the timestamp
OwnIntervalHolds ==
    { i \in 1..Len(fCaptions) :
        /\ fCaptions[i].start <= fTimestamp
        /\ fTimestamp <= fCaptions[i].start + fCaptions[i].dur }

\* C11: on a chronologically ordered list, whenever the own interval
\* start .. start + duration of some entry holds the timestamp, the lookup
\* returns an entry whose own interval holds it.
C11_FirstMatchIsSpoken ==
    (Looked /\ OwnIntervalHolds # {}) =>
        \E i \in OwnIntervalHolds : fResult = JStr(fCaptions[i].text)

(***************************************************************************)
(* Properties of determineDiagramType (checked under TextSpec)             *)
(***************************************************************************)
\* keyword k occurs in the text, letters compared without regard to case
Occurs(text, k) ==
    \E i \in 1..Len(text) :
        /\ i + Len(k) - 1 <= Len(text)
        /\ \A j \in 1..Len(k) : ToLowerChar(text[i + j - 1]) = k[j]

Mentions(text, kws) == \E k \in kws : Occurs(text, k)

\* C12: the diagram is 'goal' when the commentary mentions goal, score or
\* finish in any case; else 'through-ball' when it mentions through or pass;
\* else 'offside-trap' when it mentions offside or trap; else 'defensive'.
\* A commentary with both 'goal' and 'pass' gives 'goal'.
C12_DiagramPrecedence ==
    tDiagram # "none" =>
        /\ tDiagram =
              IF Mentions(tCommentary, {KW_goal, KW_score, KW_finish}) THEN "goal"
              ELSE IF Mentions(tCommentary, {KW_through, KW_pass}) THEN "through-ball"
              ELSE IF Mentions(tCommentary, {KW_offside, KW_trap}) THEN "offside-trap"
              ELSE "defensive"
        /\ (Occurs(tCommentary, KW_goal) /\ Occurs(tCommentary, KW_pass))
              => tDiagram = "goal"

\* a commentary with 'Pass' ahead of 'goal' classified as goal
C12_Witness ==
    /\ tCommentary = <<"P","a","s","s"," ","g","o","a","l">>
    /\ tDiagram = "goal"

(***************************************************************************)
(* Further properties of the server                                        *)
(***************************************************************************)
\* the step in which request r to /api/generate-analogy arrives
AnalogyArrives(r) == req[r].pc = "idle" /\ req'[r].route = "analogy"

\* the step in which request r to /api/generate-analogy is answered
AnalogyAnswered(r) ==
    req[r].pc # "done" /\ req'[r].pc = "done" /\ req'[r].route = "analogy"

\* C13: a request to /api/generate-analogy without a videoId is answered
\* with HTTP 400 at once, with no caption fetch and no generation call and
\* with both caches left as they were; and no other request to the endpoint
\* gets a response other than 200.
C13_OnlyMissingIdFails ==
    [][ \A r \in Reqs :
          /\ (AnalogyArrives(r) /\ ~Truthy(req'[r].videoId))
                => /\ req'[r].pc = "done"
                   /\ req'[r].res.status = 400
                   /\ req'[r].capCalls = 0
                   /\ req'[r].genCalls = 0
                   /\ UNCHANGED << captionsCache, analogyCache, genCount, paidCalls >>
          /\ (AnalogyAnswered(r) /\ req'[r].res.status # 200)
                => ~Truthy(req'[r].videoId) ]_vars

\* request r is answered from the cache in this step
ServedFromCache(r) ==
    /\ AnalogyArrives(r)
    /\ Truthy(req'[r].videoId)
    /\ CacheKey(req'[r].videoId, req'[r].ts) \in DOMAIN analogyCache

\* C14: a response served from the cache is the stored copy and carries
\* cached = true, and the request has sent no generation request; any other
\* result carries cached = false while the copy stored under its key in the
\* same step is that result with cached = true.
C14_CachedFlag ==
    [][ \A r \in Reqs :
          (AnalogyAnswered(r) /\ req'[r].res.status = 200) =>
              LET cacheKey == CacheKey(req'[r].videoId, req'[r].ts)
                  body == req'[r].res.body
              IN  IF ServedFromCache(r)
                  THEN /\ body.cached = TRUE
                       /\ body = analogyCache[cacheKey]
                       /\ req'[r].genCalls = 0
                       /\ analogyCache' = analogyCache
                  ELSE /\ body.cached = FALSE
                       /\ analogyCache'[cacheKey] = [body EXCEPT !.cached = TRUE] ]_vars

\* a miss answered after a generation request, then a hit on the stored copy
C14_Witness ==
    \E r1, r2 \in AnalogyReqs :
        /\ HasResult(r1)
        /\ req[r1].genCalls = 1
        /\ req[r1].res.body.cached = FALSE
        /\ HasResult(r2)
        /\ req[r2].genCalls = 0
        /\ req[r2].res.body.cached = TRUE
        /\ req[r2].res.body = analogyCache[CacheKey(req[r2].videoId, req[r2].ts)]
        /\ req[r2].res.body = [req[r1].res.body EXCEPT !.cached = TRUE]

\* the caller supplied a caption text with request rq
Supplied(rq) ==
    /\ rq.route = "analogy"
    /\ IsStr(rq.providedCaption)
    /\ rq.providedCaption.str # <<>>

\* C15: a request that finds its bucket not cached and carries a caption
\* text takes that text as its commentary, never calls the caption service
\* and never changes the caption cache, and its result carries the text
\* unchanged as originalCommentary.
C15_ProvidedCaptionUsed ==
    [][ \A r \in Reqs :
          (req'[r] # req[r] /\ Supplied(req'[r])) =>
              /\ captionsCache' = captionsCache
              /\ req'[r].capCalls = 0
              /\ req'[r].commentary = req'[r].providedCaption
              /\ req'[r].pc = "done"
                    => /\ req'[r].res.status = 200
                       /\ req'[r].res.body.originalCommentary
                             = req'[r].providedCaption.str ]_vars

\* a result built on the supplied caption while the caption cache is empty
C15_Witness ==
    \E r \in Reqs :
        /\ Supplied(req[r])
        /\ HasResult(r)
        /\ req[r].res.body.cached = FALSE
        /\ req[r].res.body.originalCommentary = CaptionGoalPass
        /\ req[r].capCalls = 0
        /\ captionsCache = EmptyMap

\* 'Soccer action at M:SS' for a whole number of seconds
MinSec(ts) ==
    GenericPrefix \o NumToChars(ts \div 60)
        \o << ":", DigitChars[((ts % 60) \div 10) + 1], DigitChars[((ts % 60) % 10) + 1] >>

\* no entry of the list matches the timestamp, in either phase of the lookup
NoEntryMatches(captions, ts) ==
    \A i \in 1..Len(captions) :
        ~CapContains(captions[i], ts) /\ Abs(ts - captions[i].start) > 5

\* the step in which request r, sent without a caption, comes to know that
\* it has no caption line: the fetch failed, or the list it got or found
\* stored has no entry for the timestamp
NoCaptionLine(r) ==
    /\ req'[r].route = "analogy"
    /\ ~Truthy(req'[r].providedCaption)
    /\ \/ CaptionOutcomeStep(r) /\ req'[r].capOutcome = "error"
       \/ /\ CaptionOutcomeStep(r)
          /\ req'[r].capOutcome \in {"data", "empty"}
          /\ NoEntryMatches(captionsCache'[req'[r].videoId.str], req'[r].ts)
       \/ /\ AnalogyArrives(r)
          /\ Truthy(req'[r].videoId)
          /\ ~ServedFromCache(r)
          /\ req'[r].videoId.str \in DOMAIN captionsCache
          /\ NoEntryMatches(captionsCache[req'[r].videoId.str], req'[r].ts)

\* C16: when no caption came with the request and the fetch fails or no
\* entry matches, the commentary is 'Soccer action at M:SS' with
\* M = floor(ts / 60) and SS = ts mod 60 in two digits, and that text is the
\* originalCommentary of the result.
C16_GenericDescription ==
    [][ \A r \in Reqs :
          /\ NoCaptionLine(r) => req'[r].commentary = JStr(MinSec(req'[r].ts))
          /\ (AnalogyAnswered(r) /\ ~ServedFromCache(r) /\ Truthy(req'[r].videoId))
                => /\ req'[r].res.status = 200
                   /\ req'[r].res.body.originalCommentary = req'[r].commentary.str ]_vars

\* the documented example: 495 seconds reads 8:15
C16_Witness ==
    \E r \in Reqs :
        /\ HasResult(r)
        /\ req[r].ts = 495
        /\ req[r].capOutcome = "error"
        /\ req[r].res.body.originalCommentary
              = <<"S","o","c","c","e","r"," ","a","c","t","i","o","n"," ","a","t"," ","8",":","1","5">>

\* the canned analogy of the first keyword group the commentary mentions
StatedStub(text) ==
    IF Mentions(text, {KW_goal, KW_score}) THEN StubTouchdown
    ELSE IF Mentions(text, {KW_pass, KW_through}) THEN StubSeamRoute
    ELSE IF Mentions(text, {KW_defend, KW_block, KW_tackle}) THEN StubLinebacker
    ELSE IF Mentions(text, {KW_save, KW_keeper}) THEN StubSafety
    ELSE IF Mentions(text, {KW_foul, KW_card}) THEN StubHolding
    ELSE IF Mentions(text, {KW_corner, KW_setpiece}) THEN StubGoalLine
    ELSE StubDefault

\* the ways a generation call fails: no API key; a network error, a non-OK
\* status, an empty body or one that cannot be read; a body whose text is
\* not a string
GenFailures == { "nokey", "failed", "nontext" }

\* C17: whenever the generation call fails (no API key, network error,
\* non-OK status, malformed or empty body), the nflAnalogy of the result is
\* the stub analogy: the canned text of the first keyword group, in the
\* fixed order, that the commentary mentions, or the default text.
C17_FailureGivesStub ==
    \A r \in AnalogyReqs :
        (HasResult(r) /\ req[r].res.body.cached = FALSE /\ req[r].genOutcome \in GenFailures)
            => req[r].res.body.nflAnalogy = JStr(StatedStub(req[r].res.body.originalCommentary))

\* C18: within one request to /api/generate-analogy the caption service is
\* called at most once and the generation service at most once, whatever
\* the calls' outcomes.
C18_NoRetry ==
    \A r \in Reqs :
        req[r].route = "analogy" => req[r].capCalls <= 1 /\ req[r].genCalls <= 1

\* a request answered after both of its calls failed, each made once
C18_Witness ==
    \E r \in AnalogyReqs :
        /\ HasResult(r)
        /\ req[r].capOutcome = "error"
        /\ req[r].capCalls = 1
        /\ req[r].genOutcome = "failed"
        /\ req[r].genCalls = 1

\* documented tolerance, in seconds, of the cache for nearby timestamps
NearbyTolerance == 2

\* C19: once a request for a videoId has been answered with a result, a
\* later request for the same videoId at a timestamp within NearbyTolerance
\* seconds of the first is served from the cache (cached = true), also
\* across a bucket boundary.
C19_NearbyIsCacheHit ==
    \A r1, r2 \in AnalogyReqs :
        ( /\ r1 \in req[r2].doneBefore
          /\ HasResult(r1)
          /\ req[r1].videoId = req[r2].videoId
          /\ Abs(req[r2].ts - req[r1].ts) <= NearbyTolerance )
        => /\ HasResult(r2)
           /\ req[r2].res.body.cached = TRUE

MaxClientTime == 75

ClientVideoIds == { <<"x">>, <<"y">> }

ClientTimes == 0..MaxClientTime \cup { 125, 495, 3599, 3600, 3725 }

\* what the fetch does: it rejects (backend unreachable), or it resolves with
\* a non-2xx status, with a 2xx status and a body that is not JSON, or with
\* a 2xx status and a result
FetchOutcomes == { "unreachable", "status400", "status500", "badjson", "ok" }

\* formatTime with the seconds not padded
formatTimeUnpadded(seconds) ==
    NumToChars(seconds \div 60) \o <<":">> \o NumToChars(JsRem(seconds, 60))

\* `${mins}:${secs.toString().padStart(2, '0')}` with mins = Math.floor(seconds / 60)
\* and secs = Math.floor(seconds % 60)
formatTime(seconds) ==
    NumToChars(seconds \div 60) \o <<":">> \o PadStart2(NumToChars(JsRem(seconds, 60)))

\* the object the catch block returns
ClientFallback(input) ==
    [ originalCommentary |-> GenericPrefix \o formatTime(input.timestamp),
      nflAnalogy |-> JStr(StubDefault),
      fieldDiagram |-> "defensive",
      timestamp |-> input.timestamp,
      videoId |-> input.videoId,
      cached |-> FALSE ]

\* the body of a 2xx answer: what the server sends for a video without
\* captions (lines 471-486 of the server)
ServerBody(input) ==
    [ originalCommentary |-> GenericDescription(input.timestamp),
      nflAnalogy |-> JStr(AiText),
      fieldDiagram |-> determineDiagramType(JStr(GenericDescription(input.timestamp))),
      timestamp |-> input.timestamp,
      videoId |-> input.videoId,
      cached |-> FALSE ]

\* what the promise of generateAnalogy resolves to
generateAnalogy(input, outcome) ==
    IF outcome = "ok" THEN ServerBody(input) ELSE ClientFallback(input)

ClientInit ==
    /\ aiProviderEnv = "unset"
    /\ anthropicKey = FALSE
    /\ openaiKey = FALSE
    /\ ServerIdle
    /\ FindIdle
    /\ client \in [ videoId : ClientVideoIds, timestamp : ClientTimes,
                    settled : {"idle"}, result : {NotCalled} ]
    /\ page = PageIdle
    /\ zone = ZoneIdle

\* one call of generateAnalogy, from the fetch to the settled promise; every
\* failure inside the try block lands in the catch block, which returns
ClientCall(outcome) ==
    /\ client.settled = "idle"
    /\ client' = [client EXCEPT
                    !.settled = "resolved",
                    !.result = [ outcome |-> outcome,
                                 value |-> generateAnalogy(
                                    [videoId |-> client.videoId,
                                     timestamp |-> client.timestamp], outcome) ]]
    /\ UNCHANGED << serverVars, findVars, page, zone >>

ClientNext == \E outcome \in FetchOutcomes : ClientCall(outcome)

ClientSpec == ClientInit /\ [][ClientNext]_vars

\* C21: the generateAnalogy client never rejects, and when the backend is
\* unreachable or answers with a non-2xx status it resolves to the
\* placeholder: 'Soccer action at M:SS' for the requested timestamp, the
\* defensive diagram, cached false, and the requested videoId and timestamp
BackendFailed(outcome) == outcome \in { "unreachable", "status400", "status500" }

C21_ClientNeverRejects ==
    /\ client.settled # "rejected"
    /\ (client.settled = "resolved" /\ BackendFailed(client.result.outcome)) =>
          /\ client.result.value.originalCommentary = MinSec(client.timestamp)
          /\ client.result.value.fieldDiagram = "defensive"
          /\ client.result.value.cached = FALSE
          /\ client.result.value.videoId = client.videoId
          /\ client.result.value.timestamp = client.timestamp

\* the backend was unreachable at a time with single-digit seconds past the
\* first minute, and the call has resolved
C21_Witness ==
    /\ client.settled = "resolved"
    /\ client.result.outcome = "unreachable"
    /\ client.timestamp = 65

(***************************************************************************)
(* Front end: the Index page.  VideoZone reports playback positions        *)
(* through onCurrentTimeChange = handleTimeChange, from its timer and its  *)
(* state changes and from the Analyze Now button; each generateAnalogy     *)
(* call settles at some later time, in any order.                          *)
(***************************************************************************)
\* number of positions VideoZone reports
MaxReports == 3

PageVideoIds == { <<"x">>, <<"y">> }

\* whole-second playback positions
PagePositions == { 5, 19, 20, 45 }

\* a report comes from the timer or a state change, or from Analyze Now
ReportKinds == { "tick", "analyze" }

\* the answers the page model draws for a call
PageOutcomes == { "ok", "unreachable" }

\* Math.floor(timestamp / 10) * 10
RoundedTime(timestamp) == (timestamp \div 10) * 10

\* the guards of fetchAnalogy (lines 49-55): a video is set, and the rounded
\* time is not within 10 of lastFetchedTime.current
Issues(pg, timestamp) ==
    /\ Truthy(pg.videoId)
    /\ ~(Abs(RoundedTime(timestamp) - pg.lastFetchedTime) < 10)

\* fetchAnalogy up to its await (lines 48-65): the ref is set, isLoading is
\* raised, the call is on its way
fetchAnalogy(pg, timestamp) ==
    IF Issues(pg, timestamp)
    THEN [pg EXCEPT
            !.lastFetchedTime = RoundedTime(timestamp),
            !.analysis.isLoading = TRUE,
            !.inFlight = @ \cup { [ seq |-> Len(pg.issued) + 1,
                                    videoId |-> pg.videoId.str,
                                    timestamp |-> timestamp ] },
            !.issued = Append(@, [ videoId |-> pg.videoId.str,
                                   timestamp |-> timestamp ])]
    ELSE pg

\* the videoUrl effect (lines 34-45) after a YouTube URL was entered; the
\* ref lastFetchedTime is left as it is
SetVideo(v) ==
    /\ page.videoId # JStr(v)
    /\ page' = [page EXCEPT !.videoId = JStr(v), !.fresh = TRUE]
    /\ UNCHANGED << serverVars, findVars, client, zone >>

\* handleTimeChange (lines 81-84) called by VideoZone, which has a player
\* only while a YouTube video is loaded
Report(kind, time) ==
    /\ page.report.n < MaxReports
    /\ Truthy(page.videoId)
    /\ \E pg \in { fetchAnalogy(page, time) } :
          page' = [pg EXCEPT
                     !.report = [ n |-> page.report.n + 1,
                                  kind |-> kind,
                                  time |-> time,
                                  first |-> (kind = "tick" /\ page.fresh),
                                  loaded |-> Truthy(page.videoId),
                                  issued |-> Len(pg.issued) > Len(page.issued) ],
                     !.fresh = IF kind = "tick" THEN FALSE ELSE @]
    /\ UNCHANGED << serverVars, findVars, client, zone >>

\* the continuation of fetchAnalogy after its await (lines 67-73): the
\* result replaces the analysis, isLoading is lowered
Settle(q, outcome) ==
    /\ q \in page.inFlight
    /\ \E result \in { generateAnalogy([videoId |-> q.videoId,
                                        timestamp |-> q.timestamp], outcome) } :
          page' = [page EXCEPT
                     !.analysis = [ commentary |-> result.originalCommentary,
                                    nflAnalogy |-> result.nflAnalogy,
                                    fieldDiagram |-> result.fieldDiagram,
                                    isLoading |-> FALSE,
                                    timestamp |-> result.timestamp ],
                     !.inFlight = @ \ {q}]
    /\ UNCHANGED << serverVars, findVars, client, zone >>

PageInit ==
    /\ aiProviderEnv = "unset"
    /\ anthropicKey = FALSE
    /\ openaiKey = FALSE
    /\ ServerIdle
    /\ FindIdle
    /\ FrontIdle

PageNext ==
    \/ \E v \in PageVideoIds : SetVideo(v)
    \/ \E kind \in ReportKinds, time \in PagePositions : Report(kind, time)
    \/ \E q \in page.inFlight, outcome \in PageOutcomes : Settle(q, outcome)

PageSpec == PageInit /\ [][PageNext]_vars

\* C22: a request is issued for a time update only if the position has moved
\* more than 10 seconds from the position of the last issued request: two
\* requests in a row for one video are never for positions less than 10
\* seconds apart
C22_TenSecondsApart ==
    \A i \in 1..(Len(page.issued) - 1) :
        page.issued[i].videoId = page.issued[i + 1].videoId =>
            Abs(page.issued[i + 1].timestamp - page.issued[i].timestamp) >= 10

\* C23: an Analyze Now click while a YouTube video is loaded issues an
\* analysis request for the player's current time
C23_AnalyzeNowIssues ==
    (page.report.kind = "analyze" /\ page.report.loaded) =>
        /\ page.report.issued
        /\ page.issued[Len(page.issued)].timestamp = page.report.time

\* C27: once every request in flight has settled, the commentary, analogy
\* and diagram on display are those of the most recently issued request,
\* whatever order the responses arrived in
LastIssued == page.issued[Len(page.issued)]

C27_LatestRequestShown ==
    (page.inFlight = {} /\ page.issued # <<>>) =>
        /\ page.analysis.timestamp = LastIssued.timestamp
        /\ page.analysis.commentary = MinSec(LastIssued.timestamp)

\* C28: the first time update reported for a video, the first one or one
\* loaded after a switch, issues an analysis request whatever its position
C28_FirstUpdateIssues ==
    page.report.first => page.report.issued

\* C29: isLoading is true in every state with a request in flight and false
\* in every state with none
C29_LoadingWhileInFlight ==
    page.analysis.isLoading <=> page.inFlight # {}

(***************************************************************************)
(* The server asked for analogies of videos whose ids end in '-' or not,   *)
(* at timestamps before and after zero, a caption supplied                 *)
(***************************************************************************)
KeyVideoIds == { JStr(<<"x">>), JStr(<<"x","-">>) }

KeyTimestamps == { JNum(0 - 5), JNum(0 - 3), JNum(2), JNum(5), JNum(7) }

KeyInit ==
    /\ aiProviderEnv = "unset"
    /\ anthropicKey \in BOOLEAN
    /\ openaiKey = FALSE
    /\ ServerIdle
    /\ FindIdle
    /\ FrontIdle

KeyNext ==
    \/ \E r \in Reqs, videoId \in KeyVideoIds, timestamp \in KeyTimestamps :
            StartAnalogy(r, videoId, timestamp, JStr(CaptionGoalPass))
    \/ \E r \in Reqs, outcome \in GenOutcomes : GenReply(r, outcome)

KeySpec == KeyInit /\ [][KeyNext]_vars

\* C24: the cache key is injective over videoIds (with or without '-') and
\* 5-second buckets (of negative timestamps too), so a request is never
\* answered with a result computed for another video or another bucket
FloorFive(ts) == 5 * (CHOOSE q \in -1000..1000 : 5 * q <= ts /\ ts < 5 * q + 5)

C24_KeyInjective ==
    \A r \in AnalogyReqs :
        HasResult(r) =>
            /\ req[r].res.body.videoId = req[r].videoId.str
            /\ FloorFive(req[r].res.body.timestamp) = FloorFive(req[r].ts)

\* C25: every entry stored in the analogy cache under the key of (videoId
\* v, bucket b) has videoId = v, floor(timestamp / 5) * 5 = b, cached = true,
\* and the diagram kind derived from its own originalCommentary
StatedKey(v, b) == v \o <<"-">> \o NumToChars(b)

StatedDiagram(text) ==
    IF Mentions(text, {KW_goal, KW_score, KW_finish}) THEN "goal"
    ELSE IF Mentions(text, {KW_through, KW_pass}) THEN "through-ball"
    ELSE IF Mentions(text, {KW_offside, KW_trap}) THEN "offside-trap"
    ELSE "defensive"

C25_StoredEntriesWellFormed ==
    \A k \in DOMAIN analogyCache :
        LET e == analogyCache[k]
        IN  /\ k = StatedKey(e.videoId, FloorFive(e.timestamp))
            /\ e.cached = TRUE
            /\ e.fieldDiagram = StatedDiagram(e.originalCommentary)

\* two entries are stored, one of them with the text of a supplied caption
\* that mentions a goal and a pass
C25_Witness ==
    /\ Cardinality(DOMAIN analogyCache) = 2
    /\ \E k \in DOMAIN analogyCache :
          /\ analogyCache[k].originalCommentary = CaptionGoalPass
          /\ analogyCache[k].timestamp = 16

\* C26: once a caption list has been stored for a videoId it is never
\* replaced or changed afterwards, whatever the interleaving of the
\* fetchCaptions calls for that videoId, those already in flight included
C26_StoredCaptionsNeverReplaced ==
    [][ \A v \in DOMAIN captionsCache :
            /\ v \in DOMAIN captionsCache'
            /\ captionsCache'[v] = captionsCache[v] ]_vars

(***************************************************************************)
(* Front end: the VideoZone component.  The player effect creates and      *)
(* destroys the YouTube player; the player's onStateChange handler sets    *)
(* and clears the interval that reports the playback position.             *)
(***************************************************************************)
\* number of intervals set during the component's life
MaxTimers == 3

\* the parsed video sources: none, two YouTube videos, a source of another type
ZoneSources == { "none", "x", "y", "vimeo" }

IsYouTube(videoSource) == videoSource \in { "x", "y" }

\* YT.PlayerState, by name
PlayerStates == { "unstarted", "ended", "playing", "paused", "buffering", "cued" }

\* clearInterval(timeIntervalRef.current) when the ref is set
ClearedTimers(z) == IF z.timeIntervalRef # 0 THEN z.timers \ {z.timeIntervalRef} ELSE z.timers

\* the cleanup destroying the player and leaving the interval running
ZoneCleanupPlayerOnly(z) == [z EXCEPT !.player = "none"]

\* the cleanup function of the player effect (lines 139-147): the interval
\* is cleared, the ref keeps its value, the player is destroyed
ZoneCleanup(z) == [z EXCEPT !.timers = ClearedTimers(z), !.player = "none"]

\* a run of the player effect (lines 84-148) after a change of its
\* dependencies: the cleanup of the previous run, then the body, which
\* returns early or creates the player
PlayerEffect(z) ==
    LET z1 == IF z.cleanup THEN ZoneCleanup(z) ELSE z
    IN  IF ~z1.isApiReady \/ ~IsYouTube(z1.videoSource)
        THEN [z1 EXCEPT !.cleanup = FALSE, !.last = "effect"]
        ELSE [z1 EXCEPT !.player = "unstarted", !.cleanup = TRUE, !.last = "effect"]

\* window.onYouTubeIframeAPIReady (lines 74-76): setIsApiReady(true)
ApiReady ==
    /\ zone.mounted
    /\ ~zone.isApiReady
    /\ zone' = PlayerEffect([zone EXCEPT !.isApiReady = TRUE])
    /\ UNCHANGED << serverVars, findVars, client, page >>

\* handleUrlChange or the videoUrl effect (lines 151-194): setVideoSource
\* with a newly parsed source, or null
ChangeSource(videoSource) ==
    /\ zone.mounted
    /\ zone' = PlayerEffect([zone EXCEPT !.videoSource = videoSource])
    /\ UNCHANGED << serverVars, findVars, client, page >>

\* the parent passes a new onCurrentTimeChange, a dependency of the effect
CallbackChange ==
    /\ zone.mounted
    /\ zone' = PlayerEffect(zone)
    /\ UNCHANGED << serverVars, findVars, client, page >>

\* onStateChange (lines 107-135) called by the current player
StateChange(state) ==
    /\ zone.player # "none"
    /\ IF state = "playing"
       THEN /\ zone.nextId <= MaxTimers
            /\ zone' = [zone EXCEPT
                          !.player = state,
                          !.timers = ClearedTimers(zone) \cup {zone.nextId},
                          !.timeIntervalRef = zone.nextId,
                          !.nextId = @ + 1,
                          !.last = "playing"]
       ELSE /\ zone' = [zone EXCEPT
                          !.player = state,
                          !.timers = ClearedTimers(zone),
                          !.timeIntervalRef = 0,
                          !.last = "nonplaying"]
    /\ UNCHANGED << serverVars, findVars, client, page >>

\* the interval's callback (lines 116-122): it reads the position and
\* reports it, and changes neither the ref nor the timers
ZoneTick ==
    /\ zone.timers # {}
    /\ zone' = [zone EXCEPT !.last = "tick"]
    /\ UNCHANGED << serverVars, findVars, client, page >>

\* the component is unmounted: the cleanup of the last effect run
Unmount ==
    /\ zone.mounted
    /\ zone' = [(IF zone.cleanup THEN ZoneCleanup(zone) ELSE zone) EXCEPT
                  !.mounted = FALSE, !.cleanup = FALSE, !.last = "unmount"]
    /\ UNCHANGED << serverVars, findVars, client, page >>

ZoneInit ==
    /\ aiProviderEnv = "unset"
    /\ anthropicKey = FALSE
    /\ openaiKey = FALSE
    /\ ServerIdle
    /\ FindIdle
    /\ FrontIdle

ZoneNext ==
    \/ ApiReady
    \/ \E videoSource \in ZoneSources : ChangeSource(videoSource)
    \/ CallbackChange
    \/ \E state \in PlayerStates : StateChange(state)
    \/ ZoneTick
    \/ Unmount

ZoneSpec == ZoneInit /\ [][ZoneNext]_vars

\* C30: in VideoZone at most one time-tracking timer is active at a time;
\* one is active only while the current player is in the PLAYING state; none
\* is active after a non-playing state change, after the player is
\* destroyed, or after unmount
C30_AtMostOneTimer ==
    /\ Cardinality(zone.timers) <= 1
    /\ zone.timers # {} => zone.player = "playing"
    /\ zone.last \in { "nonplaying", "effect", "unmount" } => zone.timers = {}
    /\ ~zone.mounted => zone.timers = {}

\* the component was unmounted while its second timer was running: the ref
\* still holds the timer's id, and the timer is cleared
C30_Witness ==
    /\ ~zone.mounted
    /\ zone.timeIntervalRef = 2
    /\ zone.timers = {}

====
